---- MODULE Spec2Model ----
(***************************************************************************)
(* Bridge transport layer of escape_sdk: the shared-memory RPC protocol of *)
(* RuneLiteAPI (escape_sdk/_internal/api.py).  One caller thread drives    *)
(* the transport; the bridge is the process on the other side of the two   *)
(* shared-memory regions.                                                  *)
(***************************************************************************)
EXTENDS Integers, Sequences, FiniteSets, TLC

\* ---------------------------------------------------------------------
\* Protocol constants (api.py:42-60)
\* ---------------------------------------------------------------------
REQUEST_MAGIC == 1112687953
RESPONSE_MAGIC == 1112691536
PROTOCOL_VERSION == 1
FLAG_REQUEST_PENDING == 1
FLAG_RESPONSE_READY == 1
FLAG_ERROR == 2
\* 0xDEADBEEF as the four bytes struct.unpack("<I", ...) reads it from
INTEGRITY_MAGIC == <<239, 190, 173, 222>>

\* ---------------------------------------------------------------------
\* Bounds of the model
\* ---------------------------------------------------------------------
\* number of executeBatchQuery calls issued on the transport
MaxCalls == 2
\* number of operations in one batch
MaxBatch == 2
\* polls of the request flags that fit into the 10 ms wait of _sendRequest
MaxSendPolls == 1
\* polls of the response flags that fit into the timeout of _waitForResponse
MaxWaitPolls == 1

\* operation descriptors, abstracted to small identifiers
Ops == {1, 2}
\* the batches submitted: one of every length, neighbours differ
Batches == {[j \in 1..n |-> 1 + (j % 2)] : n \in 1..MaxBatch}

\* ---------------------------------------------------------------------
\* Values of the self-describing binary format (MessagePack subset)
\* ---------------------------------------------------------------------
NilV == [t |-> "nil"]
IntV(n) == [t |-> "int", i |-> n]
StrV(b) == [t |-> "str", s |-> b]
ListV(l) == [t |-> "list", l |-> l]
MapV(m) == [t |-> "map", m |-> m]

\* the strings "error" and "_ref" as UTF-8 bytes
STR_error == <<101, 114, 114, 111, 114>>
STR_ref == <<95, 114, 101, 102>>

IsList(v) == v.t = "list"
IsDict(v) == v.t = "map"
\* `key in d` for a decoded map (a sequence of <<key, value>> pairs)
HasKey(v, k) == \E j \in 1..Len(v.m) : v.m[j][1] = StrV(k)
\* d.get(key): the value of the last pair with that key
GetKey(v, k) ==
    LET js == {j \in 1..Len(v.m) : v.m[j][1] = StrV(k)}
    IN v.m[CHOOSE j \in js : \A h \in js : h <= j][2]

RECURSIVE Pack(_)
RECURSIVE PackAll(_)
\* msgpack.packb of a sequence of values, concatenated
PackAll(vs) ==
    IF vs = <<>> THEN <<>> ELSE Pack(Head(vs)) \o PackAll(Tail(vs))

RECURSIVE PackPairs(_)
PackPairs(ps) ==
    IF ps = <<>> THEN <<>>
    ELSE Pack(Head(ps)[1]) \o Pack(Head(ps)[2]) \o PackPairs(Tail(ps))

\* msgpack.packb: fixint, nil, fixstr, fixarray, fixmap
Pack(v) ==
    CASE v.t = "int" -> <<IF v.i >= 0 THEN v.i ELSE 256 + v.i>>
      [] v.t = "nil" -> <<192>>
      [] v.t = "str" -> <<160 + Len(v.s)>> \o v.s
      [] v.t = "list" -> <<144 + Len(v.l)>> \o PackAll(v.l)
      [] v.t = "map" -> <<128 + Len(v.m)>> \o PackPairs(v.m)

ParseFail == [ok |-> FALSE, v |-> NilV, p |-> 0]

RECURSIVE Parse(_, _)
RECURSIVE ParseN(_, _, _)
\* n consecutive objects starting at position p
ParseN(b, p, n) ==
    IF n = 0 THEN [ok |-> TRUE, vs |-> <<>>, p |-> p]
    ELSE LET h == Parse(b, p)
         IN IF ~h.ok THEN [ok |-> FALSE, vs |-> <<>>, p |-> 0]
            ELSE LET r == ParseN(b, h.p, n - 1)
                 IN IF ~r.ok THEN r
                    ELSE [ok |-> TRUE, vs |-> <<h.v>> \o r.vs, p |-> r.p]

\* map keys must be hashable
Hashable(v) == v.t \in {"int", "nil", "str"}

PairUp(vs) == [j \in 1..(Len(vs) \div 2) |-> <<vs[2 * j - 1], vs[2 * j]>>]

\* one object starting at position p of byte string b
Parse(b, p) ==
    IF p > Len(b) THEN ParseFail
    ELSE LET c == b[p] IN
      CASE c <= 127 -> [ok |-> TRUE, v |-> IntV(c), p |-> p + 1]
        [] c >= 128 /\ c <= 143 ->
             LET r == ParseN(b, p + 1, 2 * (c - 128))
             IN IF r.ok /\ \A j \in 1..(c - 128) : Hashable(r.vs[2 * j - 1])
                THEN [ok |-> TRUE, v |-> MapV(PairUp(r.vs)), p |-> r.p]
                ELSE ParseFail
        [] c >= 144 /\ c <= 159 ->
             LET r == ParseN(b, p + 1, c - 144)
             IN IF r.ok THEN [ok |-> TRUE, v |-> ListV(r.vs), p |-> r.p]
                ELSE ParseFail
        [] c >= 160 /\ c <= 191 ->
             IF p + (c - 160) <= Len(b)
             THEN [ok |-> TRUE, v |-> StrV(SubSeq(b, p + 1, p + (c - 160))),
                   p |-> p + 1 + (c - 160)]
             ELSE ParseFail
        [] c = 192 -> [ok |-> TRUE, v |-> NilV, p |-> p + 1]
        [] c >= 224 -> [ok |-> TRUE, v |-> IntV(c - 256), p |-> p + 1]
        [] OTHER -> ParseFail

\* msgpack.unpackb: exactly one object, no trailing bytes
unpackb(b) ==
    LET r == Parse(b, 1)
    IN IF r.ok /\ r.p = Len(b) + 1 THEN [ok |-> TRUE, v |-> r.v]
       ELSE [ok |-> FALSE, v |-> NilV]

\* struct.pack("<I", n) for n < 2^31
LE32(n) == <<n % 256, (n \div 256) % 256, (n \div 65536) % 256,
             (n \div 16777216) % 256>>

Min(a, b) == IF a < b THEN a ELSE b

\* Min(struct.unpack("<I", b[p:p+4])[0], cap) for cap < 65536: the value
\* itself may exceed the integers of the checker
U32Capped(b, p, cap) ==
    IF b[p + 2] # 0 \/ b[p + 3] # 0 THEN cap ELSE Min(b[p] + 256 * b[p + 1], cap)

\* a decoder that deserializes everything after the 8-byte prefix
_decodeMsgpackResponse_rest(data) ==
    IF Len(data) >= 8 /\ SubSeq(data, 1, 4) = INTEGRITY_MAGIC
    THEN unpackb(SubSeq(data, 9, Len(data)))
    ELSE unpackb(data)

\* RuneLiteAPI._decodeMsgpackResponse
_decodeMsgpackResponse(data) ==
    IF Len(data) >= 8 /\ SubSeq(data, 1, 4) = INTEGRITY_MAGIC
    THEN LET msg_size == U32Capped(data, 5, Len(data) - 8)
         IN unpackb(SubSeq(data, 9, 8 + msg_size))
    ELSE unpackb(data)

\* ---------------------------------------------------------------------
\* State
\* ---------------------------------------------------------------------
VARIABLES
    _instance,        \* RuneLiteAPI._instance is not None
    _initialized,     \* RuneLiteAPI._instance._initialized
    api_channel,      \* request region mapped (self.api_channel is not None)
    result_buffer,    \* response region mapped (self.result_buffer is not None)
    _sequence,        \* request sequence counter
    cached_objects,   \* set of <<ref, result>> (dict keyed by ref)
    req,              \* shared memory /dev/shm/runelite_api_universal
    rsp,              \* shared memory /dev/shm/runelite_results_universal
    pc,               \* position of the caller thread
    operations,       \* executeBatchQuery: its argument
    seq,              \* executeBatchQuery / _sendRequest: seq
    polls,            \* loop iterations of the current polling loop
    response_seq,     \* _waitForResponse: response_seq
    length,           \* _waitForResponse: length
    data,             \* _waitForResponse: data
    ret,              \* outcome of the last finished call of the caller
    bpc,              \* position of the bridge
    b_req,            \* the request as the bridge read it
    b_flags,          \* flags the bridge is about to publish
    hist              \* history of the run (auxiliary)

objVars == <<_instance, _initialized, api_channel, result_buffer, _sequence,
             cached_objects>>
callVars == <<pc, operations, seq, polls, response_seq, length, data, ret>>
bridgeVars == <<bpc, b_req, b_flags>>

\* the event consumer (EventConsumer) and the directory it watches
VARIABLES
    ring_files,          \* per ring channel, the files <channel>.<suffix> on disk
    state_files,         \* per state channel, the file <channel> on disk
    doorbell,            \* a notification of the doorbell watch is unread
    writes,              \* number of files written by the producer so far
    raises,              \* number of times Cache.addEvent has raised so far
    warn_on_gaps,        \* EventConsumer.warn_on_gaps
    last_seq,            \* EventConsumer.last_seq
    last_state_mtime,    \* EventConsumer.last_state_mtime
    running,             \* EventConsumer.running
    thread,              \* EventConsumer.thread: 0 (None) or a worker's id
    _warmup_complete,    \* EventConsumer._warmup_complete is set
    _warmup_event_count, \* EventConsumer._warmup_event_count
    event_cache,         \* the events handed to Cache.addEvent, in order
    warnings,            \* the gap warnings logged, in order
    wk,                  \* per worker thread: position and locals of _run
    st_pc,               \* position of the thread that calls start()
    st_ret,              \* value returned by its last call, and the
                         \* method whose return statement produced it
    inotify_open,        \* the doorbell watch is registered and not closed
    doorbell_exists,     \* the doorbell file is there
    su_pc,               \* position of the thread that constructs the consumer
    su_polls             \* _setupInotify: iterations of its wait for the file

diskVars == <<ring_files, state_files, doorbell, writes, raises>>
consumerVars == <<warn_on_gaps, last_seq, last_state_mtime, running, thread,
                  _warmup_complete, _warmup_event_count, event_cache,
                  warnings, wk, st_pc, st_ret, inotify_open>>
setupVars == <<doorbell_exists, su_pc, su_polls>>
consVars == <<diskVars, consumerVars, setupVars>>
rpcVars == <<objVars, req, rsp, callVars, bridgeVars, hist>>
vars == <<rpcVars, consVars>>

\* a region header filled with zeros, payload bytes as given
ZeroHeader(payload) ==
    [magic |-> 0, version |-> 0, sequence |-> 0, length |-> 0, flags |-> 0,
     payload |-> payload]

\* mmap.write(b) at OFFSET_PAYLOAD: overwrites the first len(b) bytes only
Overlay(old, b) ==
    IF Len(b) >= Len(old) THEN b ELSE b \o SubSeq(old, Len(b) + 1, Len(old))

\* mmap.read(n) at OFFSET_PAYLOAD: bytes never written read as zero
ReadBytes(payload, n) ==
    [j \in 1..n |-> IF j <= Len(payload) THEN payload[j] ELSE 0]

\* flags & bit, for the single-bit masks 1 and 2
HasFlag(flags, bit) == (flags \div bit) % 2 = 1

\* outcomes of a call
NoRet == [kind |-> "none"]
Raised(why) == [kind |-> "raise", exc |-> "RuntimeError", why |-> why]
Absent == [t |-> "absent"]
NoneV == [t |-> "None"]
TimeoutResult ==
    [kind |-> "dict", success |-> FALSE,
     error |-> [t |-> "msg", text |-> "Timeout waiting for batch response"],
     results |-> Absent]
ErrorResult(e) ==
    [kind |-> "dict", success |-> FALSE, error |-> e, results |-> NoneV]
DecodeFailure ==
    ErrorResult([t |-> "msg", text |-> "Failed to decode response"])
SuccessResult(rs) ==
    [kind |-> "dict", success |-> TRUE, error |-> Absent, results |-> ListV(rs)]

\* ---------------------------------------------------------------------
\* Event consumer: channels, file names, file contents
\* ---------------------------------------------------------------------
\* channels.RING_BUFFER_CHANNELS and channels.LATEST_STATE_CHANNELS, in
\* configured order
RING_BUFFER_CHANNELS == <<"ring_a", "ring_b">>
LATEST_STATE_CHANNELS == <<"state_a">>

RingChannels == {RING_BUFFER_CHANNELS[j] : j \in 1..Len(RING_BUFFER_CHANNELS)}
StateChannels == {LATEST_STATE_CHANNELS[j] : j \in 1..Len(LATEST_STATE_CHANNELS)}

\* files the producer writes in one run
MaxWrites == 3
\* times Cache.addEvent raises in one run
MaxRaises == 1

\* worker threads a consumer may spawn
Threads == {1, 2}

\* str(n) as ASCII codes, n < 100
str(n) == IF n < 10 THEN <<48 + n>> ELSE <<48 + (n \div 10), 48 + (n % 10)>>

\* the suffix "tmp"
TMP == <<116, 109, 112>>

\* sequence numbers the producer uses
SeqNumbers == {1, 2, 3, 10}

\* suffixes of the files <channel>.<suffix> the producer may leave on a
\* channel: on the first channel the sequence numbers and a name that is
\* not a number, on the others the first sequence number
Suffixes(c) ==
    IF c = RING_BUFFER_CHANNELS[1] THEN {str(n) : n \in SeqNumbers} \cup {TMP}
    ELSE {str(1)}

\* str.isdigit()
isdigit(s) == s # <<>> /\ \A j \in 1..Len(s) : s[j] \in 48..57

RECURSIVE int(_)
\* int(s) for a string of decimal digits
int(s) == IF s = <<>> THEN 0 ELSE 10 * int(SubSeq(s, 1, Len(s) - 1)) + (s[Len(s)] - 48)

\* bytes that are not a MessagePack object (0xc1 is never used)
CORRUPT == <<193>>

\* the serialized event of sequence number n
EventBytes(n) == Pack(IntV(n))

\* what the producer may leave in a file named <channel>.<suffix>: the
\* event of that number; bytes that do not deserialize in the second file
\* of the first channel and in files that are not event files
RingContents(c, sfx) ==
    IF ~isdigit(sfx) THEN {CORRUPT}
    ELSE IF c = RING_BUFFER_CHANNELS[1] /\ int(sfx) = 2
    THEN {EventBytes(int(sfx)), CORRUPT}
    ELSE {EventBytes(int(sfx))}

NoFile == [exists |-> FALSE, mtime |-> 0, bytes |-> <<>>]

\* names of the files of a directory listing
Names(dir) == {f.name : f \in dir}
\* the bytes of the file of that name
BytesOf(dir, name) == (CHOOSE f \in dir : f.name = name).bytes
\* os.remove
Remove(dir, name) == {f \in dir : f.name # name}

\* the sort key that ignores the sequence number
SortKey_none(sfx) == 0

\* the sort key of _processRingBuffer
SortKey(sfx) == IF isdigit(sfx) THEN int(sfx) ELSE 0

\* sorted(glob.glob(pattern), key=...): the listing comes in any order and
\* the sort is stable, so names with equal keys stay in listing order
sorted(S) ==
    {f \in [1..Cardinality(S) -> S] :
        /\ \A i, j \in 1..Cardinality(S) : i # j => f[i] # f[j]
        /\ \A i, j \in 1..Cardinality(S) :
              i < j => SortKey(f[i]) <= SortKey(f[j])}

\* a file whose number is below the cursor only
Stale_strict(n, last) == n < last

\* no file is taken for stale
Stale_never(n, last) == FALSE

\* "Skip if already processed"
Stale(n, last) == n <= last

\* a gap reported for the first event of a channel too
GapDetected_first(n, last) == n # last + 1

\* "Verify sequence continuity"
GapDetected(n, last) == n # last + 1 /\ last > 0

\* an exception that ends the loop over the files
AfterError_abort(files) == <<>>

\* "except Exception": logged, the loop goes on with the next file
AfterError(files) == Tail(files)

\* warmup that leaves out the latest-state channels
WarmupStateChannels_none == <<>>

\* the latest-state channels _performWarmup goes through
WarmupStateChannels == LATEST_STATE_CHANNELS

\* a thread that was never started
NoThread ==
    [pc |-> "none",          \* position in _run
     phase |-> "none",       \* "warmup" (_performWarmup) or "loop"
     ci |-> 0,               \* index of the channel being drained
     files |-> <<>>,         \* _processRingBuffer: files not yet visited
     events_processed |-> 0, \* _processRingBuffer: events_processed
     total_events |-> 0,     \* total_events of the pass
     seq |-> 0,              \* _processRingBuffer: seq
     event |-> NilV,         \* _processRingBuffer: event
     \* auxiliary
     snap |-> {},            \* the channel's files when the drain listed them
     c0 |-> 0,               \* Len(event_cache) when the drain started
     l0 |-> 0,               \* cursor of the channel when the drain started
     clean |-> TRUE,         \* during the drain no file of the channel was
                             \* written and addEvent has not raised
     done |-> <<>>,          \* channels drained in this pass, in order
     passes |-> 0]           \* passes started since the producer last wrote
                             \* a file, at most 2

\* no call of the consumer has returned
NoReturn == [via |-> "none", value |-> "none"]
\* a method has returned a value
Returned(via, value) == [via |-> via, value |-> value]

\* the consumer as constructed by EventConsumer(cache, warn_on_gaps)
ConsumerInit ==
    /\ ring_files = [c \in RingChannels |-> {}]
    /\ state_files = [c \in StateChannels |-> NoFile]
    /\ doorbell = FALSE
    /\ writes = 0
    /\ raises = 0
    /\ warn_on_gaps = TRUE
    /\ last_seq = [c \in RingChannels |-> 0]
    /\ last_state_mtime = [c \in StateChannels |-> 0]
    /\ running = FALSE
    /\ thread = 0
    /\ _warmup_complete = FALSE
    /\ _warmup_event_count = 0
    /\ event_cache = <<>>
    /\ warnings = <<>>
    /\ wk = [t \in Threads |-> NoThread]
    /\ st_pc = "idle"
    /\ st_ret = NoReturn
    /\ inotify_open = TRUE
    /\ doorbell_exists = TRUE
    /\ su_pc = "done"
    /\ su_polls = 0

NoHist ==
    [issued |-> <<>>,      \* sequence numbers handed out by _next_sequence
     log |-> <<>>,         \* one record per finished executeBatchQuery call
     sends |-> 0,          \* pending-flag writes of the current call
     seq0 |-> 0,           \* _sequence when the current call started
     saw_ready |-> FALSE,  \* the current call observed the ready flag
     rsp_tag |-> 0,        \* sequence the bridge had read for the payload in rsp
     data_tag |-> 0,       \* rsp_tag of the payload read by the current call
     overwrote |-> FALSE,  \* the request region was written while pending was set
     faithful |-> TRUE,    \* the bridge always echoed the sequence it read
     sent |-> <<>>,        \* the operations of each call, in the order of issued
     stale |-> FALSE,      \* the current call's send found a ready reply in rsp
     fresh |-> FALSE]      \* the bridge set the ready flag since the last clear

\* the class RuneLiteAPI loaded, no instance, the regions of the bridge empty
RpcInit ==
    /\ _instance = FALSE
    /\ _initialized = FALSE
    /\ api_channel = FALSE
    /\ result_buffer = FALSE
    /\ _sequence = 0
    /\ cached_objects = {}
    /\ req = ZeroHeader(<<>>)
    /\ rsp = ZeroHeader(<<>>)
    /\ pc = "idle"
    /\ operations = <<>>
    /\ seq = 0
    /\ polls = 0
    /\ response_seq = 0
    /\ length = 0
    /\ data = <<>>
    /\ ret = NoRet
    /\ bpc = "idle"
    /\ b_req = [sequence |-> 0, payload |-> <<>>]
    /\ b_flags = 0
    /\ hist = NoHist

Init ==
    /\ RpcInit
    /\ ConsumerInit


\* ---------------------------------------------------------------------
\* Construction and connection
\* ---------------------------------------------------------------------
\* __init__ without its guard: every construction runs the body again
SkipInit_never(initialized) == FALSE

\* __init__: "Skip if already initialized (singleton pattern)"
SkipInit(initialized) == initialized

\* RuneLiteAPI(): __new__ followed by __init__
Construct ==
    /\ pc = "idle"
    /\ _instance' = TRUE
    /\ LET initialized == IF _instance THEN _initialized ELSE FALSE
       IN IF SkipInit(initialized)
          THEN UNCHANGED <<_initialized, api_channel, result_buffer,
                           cached_objects, _sequence>>
          ELSE /\ _initialized' = TRUE
               /\ api_channel' = FALSE
               /\ result_buffer' = FALSE
               /\ cached_objects' = {}
               /\ _sequence' = 0
    /\ ret' = [kind |-> "instance"]
    /\ UNCHANGED <<req, rsp, pc, operations, seq, polls, response_seq, length,
                   data, bridgeVars, hist>>
    /\ UNCHANGED consVars

\* connect() without its except clause
ConnectFailure_raise == "raise"

\* what connect() does when open() or mmap() raises: "return" (False) or "raise"
ConnectFailure == "return"

\* connect(): fail is "none", "request" (first open/mmap raises) or
\* "response" (second open/mmap raises); the value returned records it
connect(fail) ==
    /\ pc = "idle"
    /\ _instance
    /\ api_channel' = IF fail = "request" THEN api_channel ELSE TRUE
    /\ result_buffer' = IF fail = "none" THEN TRUE ELSE result_buffer
    /\ ret' = IF fail = "none" THEN [kind |-> "bool", value |-> TRUE, fail |-> fail]
              ELSE IF ConnectFailure = "return"
                   THEN [kind |-> "bool", value |-> FALSE, fail |-> fail]
                   ELSE Raised("connect")
    /\ UNCHANGED <<_instance, _initialized, _sequence, cached_objects, req, rsp,
                   pc, operations, seq, polls, response_seq, length, data,
                   bridgeVars, hist>>
    /\ UNCHANGED consVars

\* ---------------------------------------------------------------------
\* executeBatchQuery, _sendRequest
\* ---------------------------------------------------------------------
\* the connection check looking at the request region only
Connected_request_only(a, r) == a

\* executeBatchQuery: "if not self.api_channel or not self.result_buffer"
Connected(a, r) == a /\ r

\* _next_sequence returning the counter without advancing it
_next_sequence_stuck(s) == s

\* _next_sequence advancing the counter by two
_next_sequence_skip(s) == s + 2

\* _next_sequence: the incremented counter
_next_sequence(s) == s + 1

\* the operations list as a value of the binary format
OpsValue(ops) == ListV([j \in 1..Len(ops) |-> IntV(ops[j])])

\* a finished call: its history record
Finish(h, out, rseq, result) ==
    [h EXCEPT !.log = Append(@, [seq |-> seq, out |-> out, rseq |-> rseq,
                                 ret |-> result,
                                 tag |-> IF out = "payload" THEN h.data_tag ELSE 0,
                                 sends |-> h.sends,
                                 adv |-> _sequence - h.seq0,
                                 saw_ready |-> h.saw_ready])]

\* executeBatchQuery(ops) up to the first statement of _sendRequest
executeBatchQuery(ops) ==
    /\ pc = "idle"
    /\ _instance
    /\ Len(hist.issued) < MaxCalls
    /\ IF ~Connected(api_channel, result_buffer)
       THEN /\ ret' = Raised("not_connected")
            /\ UNCHANGED <<_sequence, pc, operations, seq, polls, response_seq,
                           length, data, hist>>
       ELSE /\ operations' = ops
            /\ _sequence' = _next_sequence(_sequence)
            /\ seq' = _sequence'
            /\ polls' = 0
            /\ response_seq' = 0
            /\ length' = 0
            /\ data' = <<>>
            /\ pc' = "send_wait"
            /\ ret' = NoRet
            /\ hist' = [hist EXCEPT !.issued = Append(@, seq'),
                                    !.sent = Append(@, ops),
                                    !.sends = 0, !.seq0 = _sequence,
                                    !.saw_ready = FALSE, !.data_tag = 0,
                                    !.stale = FALSE]
    /\ UNCHANGED <<_instance, _initialized, api_channel, result_buffer,
                   cached_objects, req, rsp, bridgeVars>>
    /\ UNCHANGED consVars

\* _sendRequest: one iteration of "wait for bridge to clear pending"
SendWaitPoll ==
    /\ pc = "send_wait"
    /\ IF polls < MaxSendPolls /\ HasFlag(req.flags, FLAG_REQUEST_PENDING)
       THEN /\ polls' = polls + 1
            /\ pc' = pc
       ELSE /\ polls' = 0
            /\ pc' = "send_clear"
    /\ UNCHANGED <<objVars, req, rsp, operations, seq, response_seq, length,
                   data, ret, bridgeVars, hist>>
    /\ UNCHANGED consVars

\* a send that leaves the response header as it finds it
ClearedHeader_keep(r) == r

\* the response region after struct.pack("<IIQII", 0, 0, 0, 0, 0) was
\* written over its first 24 bytes
ClearedHeader(r) == ZeroHeader(r.payload)

\* _sendRequest: "Clear response buffer header" (24 bytes)
SendClear ==
    /\ pc = "send_clear"
    /\ rsp' = ClearedHeader(rsp)
    /\ pc' = "send_magic"
    /\ hist' = [hist EXCEPT !.stale = HasFlag(rsp.flags, FLAG_RESPONSE_READY),
                            !.fresh = FALSE]
    /\ UNCHANGED <<objVars, req, operations, seq, polls, response_seq, length,
                   data, ret, bridgeVars>>
    /\ UNCHANGED consVars

SendMagic ==
    /\ pc = "send_magic"
    /\ req' = [req EXCEPT !.magic = REQUEST_MAGIC]
    /\ pc' = "send_version"
    /\ hist' = [hist EXCEPT !.overwrote =
                    @ \/ HasFlag(req.flags, FLAG_REQUEST_PENDING)]
    /\ UNCHANGED <<objVars, rsp, operations, seq, polls, response_seq, length,
                   data, ret, bridgeVars>>
    /\ UNCHANGED consVars

SendVersion ==
    /\ pc = "send_version"
    /\ req' = [req EXCEPT !.version = PROTOCOL_VERSION]
    /\ pc' = "send_sequence"
    /\ UNCHANGED <<objVars, rsp, operations, seq, polls, response_seq, length,
                   data, ret, bridgeVars, hist>>
    /\ UNCHANGED consVars

SendSequence ==
    /\ pc = "send_sequence"
    /\ req' = [req EXCEPT !.sequence = seq]
    /\ pc' = "send_length"
    /\ UNCHANGED <<objVars, rsp, operations, seq, polls, response_seq, length,
                   data, ret, bridgeVars, hist>>
    /\ UNCHANGED consVars

SendLength ==
    /\ pc = "send_length"
    /\ req' = [req EXCEPT !.length = Len(Pack(OpsValue(operations)))]
    /\ pc' = "send_payload"
    /\ UNCHANGED <<objVars, rsp, operations, seq, polls, response_seq, length,
                   data, ret, bridgeVars, hist>>
    /\ UNCHANGED consVars

SendPayload ==
    /\ pc = "send_payload"
    /\ req' = [req EXCEPT !.payload = Overlay(@, Pack(OpsValue(operations)))]
    /\ pc' = "send_flags"
    /\ UNCHANGED <<objVars, rsp, operations, seq, polls, response_seq, length,
                   data, ret, bridgeVars, hist>>
    /\ UNCHANGED consVars

\* _sendRequest: "Set pending flag (must be last)"; _waitForResponse starts
SendFlags ==
    /\ pc = "send_flags"
    /\ req' = [req EXCEPT !.flags = FLAG_REQUEST_PENDING]
    /\ pc' = "wait_poll"
    /\ polls' = 0
    /\ hist' = [hist EXCEPT !.sends = @ + 1]
    /\ UNCHANGED <<objVars, rsp, operations, seq, response_seq, length, data,
                   ret, bridgeVars>>
    /\ UNCHANGED consVars


\* ---------------------------------------------------------------------
\* _waitForResponse and the rest of executeBatchQuery
\* ---------------------------------------------------------------------
\* a polling loop without a timeout
WaitLoopCond_forever(n) == TRUE

\* _waitForResponse: the condition of its polling loop
WaitLoopCond(n) == n < MaxWaitPolls

\* _waitForResponse without the sequence check
SeqMatches_any(rseq, expected_seq) == TRUE

\* _waitForResponse: "if response_seq != expected_seq: raise" (negated)
SeqMatches(rseq, expected_seq) == rseq = expected_seq

\* executeBatchQuery: "if not data: return {...}"
NoDataOutcome == TimeoutResult

\* executeBatchQuery without its try/except: the exception escapes
OnDecodeError_raise == Raised("decode")

\* executeBatchQuery: "except Exception as e: return {...}"
OnDecodeError == DecodeFailure

\* wrapping every decoded value, lists included
Normalize_wrap(results) == <<results>>

\* dropping a decoded value that is not a list
Normalize_drop(results) == IF IsList(results) THEN results.l ELSE <<>>

\* executeBatchQuery: "results if isinstance(results, list) else [results]"
Normalize(results) == IF IsList(results) THEN results.l ELSE <<results>>

RECURSIVE CacheRefs(_, _)
\* executeBatchQuery: "Cache object references"; ok is FALSE when a ref
\* cannot be used as a dict key (TypeError)
CacheRefs(rs, cache) ==
    IF rs = <<>> THEN [ok |-> TRUE, cache |-> cache]
    ELSE LET result == Head(rs)
         IN IF IsDict(result) /\ HasKey(result, STR_ref)
            THEN LET ref == GetKey(result, STR_ref)
                 IN IF Hashable(ref)
                    THEN CacheRefs(Tail(rs),
                             {e \in cache : e[1] # ref} \cup {<<ref, result>>})
                    ELSE [ok |-> FALSE, cache |-> cache]
            ELSE CacheRefs(Tail(rs), cache)

\* executeBatchQuery from "try:" to its end, for non-empty data
ProcessResponse(d, cache) ==
    LET dec == _decodeMsgpackResponse(d)
    IN IF ~dec.ok THEN [ret |-> OnDecodeError, cache |-> cache]
       ELSE IF IsDict(dec.v) /\ HasKey(dec.v, STR_error)
       THEN [ret |-> ErrorResult(GetKey(dec.v, STR_error)), cache |-> cache]
       ELSE LET rs == Normalize(dec.v)
                cr == CacheRefs(rs, cache)
            IN IF cr.ok THEN [ret |-> SuccessResult(rs), cache |-> cr.cache]
               ELSE [ret |-> OnDecodeError, cache |-> cr.cache]

\* _waitForResponse returns None; executeBatchQuery returns
ReturnNoData ==
    /\ pc' = "idle"
    /\ ret' = NoDataOutcome
    /\ hist' = Finish(hist, "nodata", response_seq, ret')
    /\ polls' = 0
    /\ response_seq' = 0
    /\ length' = 0
    /\ data' = <<>>

\* _waitForResponse: loop condition and the poll of the response flags
WaitPoll ==
    /\ pc = "wait_poll"
    /\ IF ~WaitLoopCond(polls)
       THEN ReturnNoData
       ELSE IF HasFlag(rsp.flags, FLAG_RESPONSE_READY)
       THEN /\ pc' = "wait_magic"
            /\ hist' = [hist EXCEPT !.saw_ready = TRUE]
            /\ UNCHANGED <<polls, ret, response_seq, length, data>>
       ELSE /\ polls' = Min(polls + 1, MaxWaitPolls)
            /\ UNCHANGED <<pc, ret, hist, response_seq, length, data>>
    /\ UNCHANGED <<objVars, req, rsp, operations, seq, bridgeVars>>
    /\ UNCHANGED consVars

\* a check of the magic number that accepts every value
MagicOk_any(m) == TRUE

\* the magic number read from the response header is the expected one
MagicOk(m) == m = RESPONSE_MAGIC

\* _waitForResponse: "Verify magic number"
WaitMagic ==
    /\ pc = "wait_magic"
    /\ IF ~MagicOk(rsp.magic)
       THEN /\ rsp' = [rsp EXCEPT !.flags = 0]
            /\ ReturnNoData
       ELSE /\ pc' = "wait_seq"
            /\ UNCHANGED <<rsp, ret, hist, polls, response_seq, length, data>>
    /\ UNCHANGED <<objVars, req, operations, seq, bridgeVars>>
    /\ UNCHANGED consVars

\* _waitForResponse: "Verify sequence number matches"
WaitSeq ==
    /\ pc = "wait_seq"
    /\ IF SeqMatches(rsp.sequence, seq)
       THEN /\ response_seq' = rsp.sequence
            /\ pc' = "wait_length"
            /\ UNCHANGED <<ret, hist, polls>>
       ELSE /\ pc' = "idle"
            /\ ret' = Raised("desync")
            /\ hist' = Finish(hist, "raise", rsp.sequence, ret')
            /\ polls' = 0
            /\ response_seq' = 0
    /\ UNCHANGED <<objVars, req, rsp, operations, seq, length, data,
                   bridgeVars>>
    /\ UNCHANGED consVars

\* a length check that takes no length for an empty reply
EmptyReply_never(n) == FALSE

\* the length read from the response header says there is no payload
EmptyReply(n) == n = 0

\* _waitForResponse: "Read payload length"
WaitLength ==
    /\ pc = "wait_length"
    /\ IF EmptyReply(rsp.length)
       THEN /\ rsp' = [rsp EXCEPT !.flags = 0]
            /\ ReturnNoData
       ELSE /\ length' = rsp.length
            /\ pc' = "wait_payload"
            /\ UNCHANGED <<rsp, ret, hist, polls, response_seq, data>>
    /\ UNCHANGED <<objVars, req, operations, seq, bridgeVars>>
    /\ UNCHANGED consVars

\* _waitForResponse: "Read payload data"
WaitPayload ==
    /\ pc = "wait_payload"
    /\ data' = ReadBytes(rsp.payload, length)
    /\ pc' = "wait_clear"
    /\ hist' = [hist EXCEPT !.data_tag = hist.rsp_tag]
    /\ UNCHANGED <<objVars, req, rsp, operations, seq, polls, response_seq,
                   length, ret, bridgeVars>>
    /\ UNCHANGED consVars

\* _waitForResponse: "Clear response flags", return data; executeBatchQuery
\* decodes it and returns
WaitClear ==
    /\ pc = "wait_clear"
    /\ rsp' = [rsp EXCEPT !.flags = 0]
    /\ ret' = IF data = <<>> THEN NoDataOutcome
              ELSE ProcessResponse(data, cached_objects).ret
    /\ cached_objects' = IF data = <<>> THEN cached_objects
                         ELSE ProcessResponse(data, cached_objects).cache
    /\ pc' = "idle"
    /\ hist' = Finish(hist, "payload", response_seq, ret')
    /\ polls' = 0
    /\ response_seq' = 0
    /\ length' = 0
    /\ data' = <<>>
    /\ UNCHANGED <<_instance, _initialized, api_channel, result_buffer,
                   _sequence, req, operations, seq, bridgeVars>>
    /\ UNCHANGED consVars

\* ---------------------------------------------------------------------
\* The bridge (the process on the other side of the regions)
\* ---------------------------------------------------------------------
\* the result of one operation
Result(op) ==
    IF op = 1 THEN IntV(7) ELSE MapV(<<<<StrV(STR_ref), IntV(4 + op)>>>>)

\* the error object of the bridge
BridgeError == MapV(<<<<StrV(STR_error), StrV(<<98, 97, 100>>)>>>>)

ReplyKinds == {"results", "prefixed", "bare", "error", "garbage", "empty",
               "badmagic", "wrong_seq", "trailing", "tail"}

\* a byte that starts no MessagePack object, left over after a message
LEFTOVER == <<193>>

\* the operations of the request the bridge read, <<>> if it does not decode
RequestOps(payload) ==
    LET d == unpackb(payload)
    IN IF d.ok /\ IsList(d.v) /\ \A j \in 1..Len(d.v.l) :
                     d.v.l[j].t = "int" /\ d.v.l[j].i \in Ops
       THEN [j \in 1..Len(d.v.l) |-> d.v.l[j].i]
       ELSE <<>>

ResultsOf(ops) == ListV([j \in 1..Len(ops) |-> Result(ops[j])])

\* payload bytes of a reply of the given kind to the request read
ReplyPayload(kind, ops) ==
    CASE kind = "error" \/ ops = <<>> -> Pack(BridgeError)
      [] kind = "garbage" -> <<193>>
      [] kind = "empty" -> <<>>
      [] kind = "prefixed" ->
           LET p == Pack(ResultsOf(ops))
           IN INTEGRITY_MAGIC \o LE32(Len(p)) \o p
      [] kind = "trailing" ->
           LET p == Pack(ResultsOf(ops))
           IN INTEGRITY_MAGIC \o LE32(Len(p)) \o p \o LEFTOVER
      [] kind = "tail" -> Pack(ResultsOf(ops)) \o LEFTOVER
      [] kind = "bare" /\ Len(ops) = 1 -> Pack(Result(ops[1]))
      [] OTHER -> Pack(ResultsOf(ops))

\* the bridge observes the pending flag
BridgeObserve ==
    /\ bpc = "idle"
    /\ HasFlag(req.flags, FLAG_REQUEST_PENDING)
    /\ bpc' = "read"
    /\ UNCHANGED <<objVars, req, rsp, callVars, b_req, b_flags, hist>>
    /\ UNCHANGED consVars

\* the bridge reads the request and clears the pending flag
BridgeRead ==
    /\ bpc = "read"
    /\ b_req' = [sequence |-> req.sequence,
                 payload |-> ReadBytes(req.payload, req.length)]
    /\ req' = [req EXCEPT !.flags = 0]
    /\ bpc' = "reply"
    /\ UNCHANGED <<objVars, rsp, callVars, b_flags, hist>>
    /\ UNCHANGED consVars

\* the bridge writes header and payload of its reply
BridgeReply(kind) ==
    /\ bpc = "reply"
    /\ LET p == ReplyPayload(kind, RequestOps(b_req.payload))
       IN rsp' = [rsp EXCEPT
                    !.magic = IF kind = "badmagic" THEN 0 ELSE RESPONSE_MAGIC,
                    !.version = PROTOCOL_VERSION,
                    !.sequence = IF kind = "wrong_seq" THEN b_req.sequence + 1
                                 ELSE b_req.sequence,
                    !.length = Len(p),
                    !.payload = Overlay(@, p)]
    /\ b_flags' = IF kind = "error" THEN FLAG_RESPONSE_READY + FLAG_ERROR
                  ELSE FLAG_RESPONSE_READY
    /\ hist' = [hist EXCEPT
                  !.rsp_tag = b_req.sequence,
                  !.faithful = @ /\ kind # "wrong_seq"]
    /\ bpc' = "ready"
    /\ UNCHANGED <<objVars, req, callVars, b_req>>
    /\ UNCHANGED consVars

\* the bridge publishes its reply: the flags are written last
BridgeSetReady ==
    /\ bpc = "ready"
    /\ rsp' = [rsp EXCEPT !.flags = b_flags]
    /\ bpc' = "idle"
    /\ hist' = [hist EXCEPT !.fresh = TRUE]
    /\ UNCHANGED <<objVars, req, callVars, b_req, b_flags>>
    /\ UNCHANGED consVars

\* ---------------------------------------------------------------------
\* Specification
\* ---------------------------------------------------------------------
CallerStep ==
    \/ SendWaitPoll
    \/ SendClear
    \/ SendMagic
    \/ SendVersion
    \/ SendSequence
    \/ SendLength
    \/ SendPayload
    \/ SendFlags
    \/ WaitPoll
    \/ WaitMagic
    \/ WaitSeq
    \/ WaitLength
    \/ WaitPayload
    \/ WaitClear

Next ==
    \/ Construct
    \/ \E fail \in {"none", "request", "response"} : connect(fail)
    \/ \E ops \in Batches : executeBatchQuery(ops)
    \/ CallerStep
    \/ BridgeObserve
    \/ BridgeRead
    \/ \E kind \in ReplyKinds : BridgeReply(kind)
    \/ BridgeSetReady

Spec == Init /\ [][Next]_vars

\* the polling loops of the caller
Polling == SendWaitPoll \/ WaitPoll

\* a caller that is polling keeps running: perf_counter advances and its
\* sleeps return
FairSpec == Spec /\ WF_vars(Polling)

TypeOK ==
    /\ _sequence \in 0..MaxCalls
    /\ polls \in 0..(MaxSendPolls + MaxWaitPolls)
    /\ pc \in {"idle", "send_wait", "send_clear", "send_magic", "send_version",
               "send_sequence", "send_length", "send_payload", "send_flags",
               "wait_poll", "wait_magic", "wait_seq", "wait_length",
               "wait_payload", "wait_clear"}
    /\ bpc \in {"idle", "read", "reply", "ready"}



\* ---------------------------------------------------------------------
\* The producer (the process that writes event files and rings the doorbell)
\* ---------------------------------------------------------------------
\* threads that are draining ring channel c
Draining(c) ==
    {t \in Threads : /\ wk[t].pc \in {"ring_file", "ring_deliver"}
                      /\ RING_BUFFER_CHANNELS[wk[t].ci] = c}

\* the auxiliary fields after the producer wrote a file (of ring channel c,
\* or of a state channel when c is "")
Written(c) ==
    [t \in Threads |->
        [wk[t] EXCEPT !.passes = 0,
                      !.clean = IF c # "" /\ t \in Draining(c) THEN FALSE ELSE @]]

\* the producer creates or replaces the file <c>.<sfx>
ProducerWriteEvent(c, sfx, b) ==
    /\ writes < MaxWrites
    /\ writes' = writes + 1
    /\ ring_files' = [ring_files EXCEPT
                        ![c] = Remove(@, sfx) \cup {[name |-> sfx, bytes |-> b]}]
    /\ wk' = Written(c)
    /\ UNCHANGED <<state_files, doorbell, raises, warn_on_gaps, last_seq,
                   last_state_mtime, running, thread, _warmup_complete,
                   _warmup_event_count, event_cache, warnings, st_pc, st_ret, inotify_open>>
    /\ UNCHANGED <<rpcVars, setupVars>>

\* the producer writes the latest-state file <c>; the clock may or may not
\* have advanced since the previous write (adv)
ProducerWriteState(c, corrupt, adv) ==
    /\ writes < MaxWrites
    /\ writes' = writes + 1
    /\ state_files' = [state_files EXCEPT
                         ![c] = [exists |-> TRUE,
                                 mtime |-> IF @.exists THEN @.mtime + adv ELSE 1,
                                 bytes |-> IF corrupt THEN CORRUPT
                                           ELSE Pack(IntV(writes'))]]
    /\ wk' = Written("")
    /\ UNCHANGED <<ring_files, doorbell, raises, warn_on_gaps, last_seq,
                   last_state_mtime, running, thread, _warmup_complete,
                   _warmup_event_count, event_cache, warnings, st_pc, st_ret, inotify_open>>
    /\ UNCHANGED <<rpcVars, setupVars>>

\* the producer touches the doorbell file
ProducerRing ==
    /\ ~doorbell
    /\ doorbell' = TRUE
    /\ UNCHANGED <<ring_files, state_files, writes, raises, consumerVars>>
    /\ UNCHANGED <<rpcVars, setupVars>>

\* ---------------------------------------------------------------------
\* EventConsumer: start
\* ---------------------------------------------------------------------
\* a thread whose target _run is about to call _performWarmup
Spawned ==
    [NoThread EXCEPT !.pc = "ring_glob", !.phase = "warmup", !.ci = 1,
                     !.passes = 1]

\* start(wait_for_warmup)
start(wait_for_warmup) ==
    /\ st_pc = "idle"
    /\ IF running
       THEN /\ st_ret' = Returned("start", "False")
            /\ UNCHANGED <<running, thread, wk, st_pc>>
       ELSE /\ \E t \in Threads :
                  /\ wk[t].pc = "none"
                  /\ \A u \in Threads : u < t => wk[u].pc # "none"
                  /\ thread' = t
                  /\ wk' = [wk EXCEPT ![t] = Spawned]
            /\ running' = TRUE
            /\ IF wait_for_warmup
               THEN st_pc' = "wait_warmup" /\ st_ret' = NoReturn
               ELSE st_pc' = "idle" /\ st_ret' = Returned("start", "True")
    /\ UNCHANGED <<diskVars, warn_on_gaps, last_seq, last_state_mtime,
                   _warmup_complete, _warmup_event_count, event_cache, warnings,
                   inotify_open>>
    /\ UNCHANGED <<rpcVars, setupVars>>

\* a timeout that stops the consumer
OnWarmupTimeout_stop(r) == FALSE

\* waitForWarmup, timeout: only a warning is logged
OnWarmupTimeout(r) == r

\* waitForWarmup returns: the condition is set (True), or the timeout has
\* passed (False)
waitForWarmup ==
    /\ st_pc = "wait_warmup"
    /\ st_pc' = "idle"
    /\ st_ret' = Returned("waitForWarmup",
                          IF _warmup_complete THEN "True" ELSE "False")
    /\ running' = IF _warmup_complete THEN running ELSE OnWarmupTimeout(running)
    /\ UNCHANGED <<diskVars, warn_on_gaps, last_seq, last_state_mtime, thread,
                   _warmup_complete, _warmup_event_count, event_cache,
                   warnings, wk, inotify_open>>
    /\ UNCHANGED <<rpcVars, setupVars>>

\* a stop that does not look at the running flag
StopSkips_never(r) == FALSE

\* stop: "if not self.running: return"
StopSkips(r) == ~r

\* stop() up to thread.join(timeout=2.0); without a live thread, through
\* inotify.close()
stop ==
    /\ st_pc = "idle"
    /\ IF StopSkips(running)
       THEN /\ st_ret' = Returned("stop", "None")
            /\ UNCHANGED <<running, st_pc, inotify_open>>
       ELSE /\ running' = FALSE
            /\ IF thread # 0 /\ wk[thread].pc # "dead"
               THEN /\ st_pc' = "join"
                    /\ st_ret' = NoReturn
                    /\ UNCHANGED inotify_open
               ELSE /\ inotify_open' = FALSE
                    /\ st_ret' = Returned("stop", "None")
                    /\ UNCHANGED st_pc
    /\ UNCHANGED <<diskVars, warn_on_gaps, last_seq, last_state_mtime, thread,
                   _warmup_complete, _warmup_event_count, event_cache,
                   warnings, wk>>
    /\ UNCHANGED <<rpcVars, setupVars>>

\* stop(): thread.join(timeout=2.0) returns (the thread has ended, or
\* the timeout has passed), then inotify.close()
StopJoin ==
    /\ st_pc = "join"
    /\ st_pc' = "idle"
    /\ st_ret' = Returned("stop", "None")
    /\ inotify_open' = FALSE
    /\ UNCHANGED <<diskVars, warn_on_gaps, last_seq, last_state_mtime, running,
                   thread, _warmup_complete, _warmup_event_count, event_cache,
                   warnings, wk>>
    /\ UNCHANGED <<rpcVars, setupVars>>

\* ---------------------------------------------------------------------
\* The worker thread: _run, _performWarmup, _processAllChannels
\* ---------------------------------------------------------------------
\* the ring channel thread t is draining
RingChannel(t) == RING_BUFFER_CHANNELS[wk[t].ci]
\* the latest-state channel thread t is draining
StateChannel(t) == LATEST_STATE_CHANNELS[wk[t].ci]

\* the latest-state channels of the pass thread t is in
PassStateChannels(t) ==
    IF wk[t].phase = "warmup" THEN WarmupStateChannels ELSE LATEST_STATE_CHANNELS

\* _processRingBuffer(channel): glob and sort
RingGlob(t) ==
    /\ wk[t].pc = "ring_glob"
    /\ \E files \in sorted(Names(ring_files[RingChannel(t)])) :
          wk' = [wk EXCEPT ![t].pc = "ring_file",
                           ![t].files = files,
                           ![t].events_processed = 0,
                           ![t].snap = ring_files[RingChannel(t)],
                           ![t].c0 = Len(event_cache),
                           ![t].l0 = last_seq[RingChannel(t)],
                           ![t].clean = TRUE]
    /\ UNCHANGED <<diskVars, warn_on_gaps, last_seq, last_state_mtime, running,
                   thread, _warmup_complete, _warmup_event_count, event_cache,
                   warnings, st_pc, st_ret, inotify_open>>
    /\ UNCHANGED <<rpcVars, setupVars>>

\* _processRingBuffer: one file up to its deserialization (lines 270-287)
RingFile(t) ==
    /\ wk[t].pc = "ring_file"
    /\ wk[t].files # <<>>
    /\ LET c == RingChannel(t)
           name == Head(wk[t].files)
           present == name \in Names(ring_files[c])
       IN IF ~isdigit(name)
          THEN /\ wk' = [wk EXCEPT ![t].files = Tail(@)]
               /\ UNCHANGED ring_files
          ELSE IF Stale(int(name), last_seq[c])
          THEN /\ ring_files' = [ring_files EXCEPT ![c] = Remove(@, name)]
               /\ wk' = [wk EXCEPT ![t].files =
                                      IF present THEN Tail(@) ELSE AfterError(@)]
          ELSE IF present /\ unpackb(BytesOf(ring_files[c], name)).ok
          THEN /\ wk' = [wk EXCEPT
                           ![t].pc = "ring_deliver",
                           ![t].seq = int(name),
                           ![t].event = unpackb(BytesOf(ring_files[c], name)).v]
               /\ UNCHANGED ring_files
          ELSE /\ wk' = [wk EXCEPT ![t].files = AfterError(@)]
               /\ UNCHANGED ring_files
    /\ UNCHANGED <<state_files, doorbell, writes, raises, warn_on_gaps,
                   last_seq, last_state_mtime, running, thread,
                   _warmup_complete, _warmup_event_count, event_cache,
                   warnings, st_pc, st_ret, inotify_open>>
    /\ UNCHANGED <<rpcVars, setupVars>>

\* _processRingBuffer: the deserialized event (lines 289-309); Cache.addEvent
\* returns (delivered) or raises
RingDeliver(t, delivered) ==
    /\ wk[t].pc = "ring_deliver"
    /\ delivered \/ raises < MaxRaises
    /\ raises' = IF delivered THEN raises ELSE raises + 1
    /\ LET c == RingChannel(t)
           seq_ == wk[t].seq
           name == Head(wk[t].files)
       IN /\ warnings' =
                IF GapDetected(seq_, last_seq[c]) /\ warn_on_gaps
                THEN Append(warnings, [channel |-> c,
                                       expected |-> last_seq[c] + 1,
                                       got |-> seq_])
                ELSE warnings
          /\ IF delivered
             THEN /\ event_cache' = Append(event_cache,
                                           [channel |-> c, event |-> wk[t].event,
                                            seq |-> seq_])
                  /\ last_seq' = [last_seq EXCEPT ![c] = seq_]
                  /\ ring_files' = [ring_files EXCEPT ![c] = Remove(@, name)]
                  /\ wk' = [wk EXCEPT
                              ![t].pc = "ring_file",
                              ![t].events_processed = @ + 1,
                              ![t].files = IF name \in Names(ring_files[c])
                                           THEN Tail(@) ELSE AfterError(@),
                              ![t].seq = 0,
                              ![t].event = NilV]
             ELSE /\ wk' = [wk EXCEPT
                              ![t].pc = "ring_file",
                              ![t].files = AfterError(@),
                              ![t].clean = FALSE,
                              ![t].seq = 0,
                              ![t].event = NilV]
                  /\ UNCHANGED <<event_cache, last_seq, ring_files>>
    /\ UNCHANGED <<state_files, doorbell, writes, warn_on_gaps,
                   last_state_mtime, running, thread, _warmup_complete,
                   _warmup_event_count, st_pc, st_ret, inotify_open>>
    /\ UNCHANGED <<rpcVars, setupVars>>

\* a warmup that goes to the loop without signalling
PassEnd_noSignal(w) == [w EXCEPT !.pc = "loop", !.ci = 0]

\* the worker record when a pass has gone through its last channel
PassEnd(w) ==
    [w EXCEPT !.pc = IF w.phase = "warmup" THEN "warmup_done" ELSE "loop",
              !.ci = 0]

\* the worker record when the ring channels of a pass are done
ToStateChannels(t, w) ==
    IF PassStateChannels(t) = <<>> THEN PassEnd(w)
    ELSE [w EXCEPT !.pc = "state_stat", !.ci = 1]

\* _processRingBuffer returns events_processed; the pass goes on with the
\* next channel
RingReturn(t) ==
    /\ wk[t].pc = "ring_file"
    /\ wk[t].files = <<>>
    /\ LET w == [wk[t] EXCEPT
                   !.total_events = @ + wk[t].events_processed,
                   !.events_processed = 0,
                   !.done = Append(@, RingChannel(t)),
                   !.snap = {}, !.c0 = 0, !.l0 = 0,
                   !.clean = TRUE]
       IN wk' = [wk EXCEPT
                   ![t] = IF wk[t].ci < Len(RING_BUFFER_CHANNELS)
                          THEN [w EXCEPT !.pc = "ring_glob", !.ci = @ + 1]
                          ELSE ToStateChannels(t, w)]
    /\ UNCHANGED <<diskVars, warn_on_gaps, last_seq, last_state_mtime, running,
                   thread, _warmup_complete, _warmup_event_count, event_cache,
                   warnings, st_pc, st_ret, inotify_open>>
    /\ UNCHANGED <<rpcVars, setupVars>>

\* the worker record when _processLatestState has returned
StateReturn(t, w) ==
    LET v == [w EXCEPT !.done = Append(@, StateChannel(t))]
    IN IF wk[t].ci < Len(PassStateChannels(t))
       THEN [v EXCEPT !.pc = "state_stat", !.ci = @ + 1]
       ELSE PassEnd(v)

\* _processLatestState(channel): exists, stat, the comparison with the
\* cursor and the update of the cursor (lines 329-343)
StateStat(t) ==
    /\ wk[t].pc = "state_stat"
    /\ LET c == StateChannel(t)
           f == state_files[c]
       IN IF ~f.exists \/ f.mtime <= last_state_mtime[c]
          THEN /\ wk' = [wk EXCEPT ![t] = StateReturn(t, wk[t])]
               /\ UNCHANGED last_state_mtime
          ELSE /\ last_state_mtime' = [last_state_mtime EXCEPT ![c] = f.mtime]
               /\ wk' = [wk EXCEPT ![t].pc = "state_read",
                                   ![t].l0 = last_state_mtime[c]]
    /\ UNCHANGED <<diskVars, warn_on_gaps, last_seq, running, thread,
                   _warmup_complete, _warmup_event_count, event_cache,
                   warnings, st_pc, st_ret, inotify_open>>
    /\ UNCHANGED <<rpcVars, setupVars>>

\* _processLatestState: open, read, unpackb, Cache.addEvent (lines 345-356);
\* Cache.addEvent returns (delivered) or raises
StateRead(t, delivered) ==
    /\ wk[t].pc = "state_read"
    /\ delivered \/ raises < MaxRaises
    /\ raises' = IF delivered \/ ~unpackb(state_files[StateChannel(t)].bytes).ok
                 THEN raises ELSE raises + 1
    /\ LET c == StateChannel(t)
           u == unpackb(state_files[c].bytes)
       IN /\ event_cache' =
                IF u.ok /\ delivered
                THEN Append(event_cache,
                            [channel |-> c, event |-> u.v, seq |-> 0])
                ELSE event_cache
          /\ wk' = [wk EXCEPT ![t] = StateReturn(t, [wk[t] EXCEPT !.l0 = 0])]
    /\ UNCHANGED <<ring_files, state_files, doorbell, writes, warn_on_gaps,
                   last_seq, last_state_mtime, running, thread,
                   _warmup_complete, _warmup_event_count, warnings, st_pc,
                   st_ret, inotify_open>>
    /\ UNCHANGED <<rpcVars, setupVars>>

\* _performWarmup: "Store count", "Signal that warmup is complete"
WarmupDone(t) ==
    /\ wk[t].pc = "warmup_done"
    /\ _warmup_event_count' = wk[t].total_events
    /\ _warmup_complete' = TRUE
    /\ wk' = [wk EXCEPT ![t].pc = "loop", ![t].phase = "loop",
                        ![t].total_events = 0, ![t].done = <<>>]
    /\ UNCHANGED <<diskVars, warn_on_gaps, last_seq, last_state_mtime, running,
                   thread, event_cache, warnings, st_pc, st_ret, inotify_open>>
    /\ UNCHANGED <<rpcVars, setupVars>>

\* a loop that does not look at the running flag
KeepsLooping_always(r) == TRUE

\* the condition of the loop of _run
KeepsLooping(r) == r

\* _run: "while self.running"
LoopCond(t) ==
    /\ wk[t].pc = "loop"
    /\ wk' = [wk EXCEPT ![t].pc = IF KeepsLooping(running) THEN "read"
                                  ELSE "dead"]
    /\ UNCHANGED <<diskVars, warn_on_gaps, last_seq, last_state_mtime, running,
                   thread, _warmup_complete, _warmup_event_count, event_cache,
                   warnings, st_pc, st_ret, inotify_open>>
    /\ UNCHANGED <<rpcVars, setupVars>>

\* an exception that ends the worker
OnLoopError_break == "dead"

\* _run: "except Exception": logged, then time.sleep(1)
OnLoopError == "sleep"

\* a loop that drains after every wait on the doorbell
DrainOn_always(events) == TRUE

\* _run: "if events": the wait returned at least one notification
DrainOn(events) == events

\* _run: inotify.read(timeout=1000) raises (the watch is closed), returns
\* the notification and _processAllChannels starts, or returns nothing after
\* the timeout
DoorbellRead(t) ==
    /\ wk[t].pc = "read"
    /\ IF ~inotify_open
       THEN /\ wk' = [wk EXCEPT ![t].pc = OnLoopError]
            /\ UNCHANGED doorbell
       ELSE IF DrainOn(doorbell)
       THEN /\ doorbell' = FALSE
            /\ wk' = [wk EXCEPT ![t].pc = "ring_glob", ![t].ci = 1,
                                ![t].total_events = 0, ![t].done = <<>>,
                                ![t].passes = Min(@ + 1, 2)]
       ELSE /\ wk' = [wk EXCEPT ![t].pc = "loop"]
            /\ UNCHANGED doorbell
    /\ UNCHANGED <<ring_files, state_files, writes, raises, warn_on_gaps,
                   last_seq, last_state_mtime, running, thread,
                   _warmup_complete, _warmup_event_count, event_cache,
                   warnings, st_pc, st_ret, inotify_open>>
    /\ UNCHANGED <<rpcVars, setupVars>>

\* _run: time.sleep(1) returns, back to the loop condition
LoopSleep(t) ==
    /\ wk[t].pc = "sleep"
    /\ wk' = [wk EXCEPT ![t].pc = "loop"]
    /\ UNCHANGED <<diskVars, warn_on_gaps, last_seq, last_state_mtime, running,
                   thread, _warmup_complete, _warmup_event_count, event_cache,
                   warnings, st_pc, st_ret, inotify_open>>
    /\ UNCHANGED <<rpcVars, setupVars>>

Producer ==
    \/ \E c \in RingChannels :
          \E sfx \in Suffixes(c) :
             \E b \in RingContents(c, sfx) : ProducerWriteEvent(c, sfx, b)
    \/ \E c \in StateChannels, corrupt \in BOOLEAN, adv \in {0, 1} :
          ProducerWriteState(c, corrupt, adv)
    \/ ProducerRing

Worker(t) ==
    \/ RingGlob(t)
    \/ RingFile(t)
    \/ \E delivered \in BOOLEAN : RingDeliver(t, delivered)
    \/ RingReturn(t)
    \/ StateStat(t)
    \/ \E delivered \in BOOLEAN : StateRead(t, delivered)
    \/ WarmupDone(t)
    \/ LoopCond(t)
    \/ DoorbellRead(t)

ConsumerNext ==
    \/ Producer
    \/ thread = 0 /\ start(FALSE)
    \/ \E t \in Threads : Worker(t)

\* one consumer next to a producer: the application starts it once,
\* without waiting for the warmup, and never stops it
ConsumerSpec == Init /\ [][ConsumerNext]_vars

\* files the producer writes in a run with restarts
MaxLifecycleWrites == 1

\* the producer of the runs with restarts: events 1 and 2 of the first
\* channel, a decodable latest state
LifecycleProducer ==
    \/ /\ writes < MaxLifecycleWrites
       /\ \E n \in {1, 2} :
             ProducerWriteEvent(RING_BUFFER_CHANNELS[1], str(n), EventBytes(n))
    \/ /\ writes < MaxLifecycleWrites
       /\ ProducerWriteState(LATEST_STATE_CHANNELS[1], FALSE, 1)
    \/ ProducerRing

LifecycleNext ==
    \/ LifecycleProducer
    \/ \E wait_for_warmup \in BOOLEAN : start(wait_for_warmup)
    \/ waitForWarmup
    \/ stop
    \/ StopJoin
    \/ \E t \in Threads : Worker(t)
    \/ \E t \in Threads : LoopSleep(t)

\* one consumer that the application starts, stops and starts again
LifecycleSpec == Init /\ [][LifecycleNext]_vars

StartStopNext ==
    \/ LifecycleProducer
    \/ thread = 0 /\ \E wait_for_warmup \in BOOLEAN : start(wait_for_warmup)
    \/ waitForWarmup
    \/ stop
    \/ StopJoin
    \/ \E t \in Threads : Worker(t)
    \/ \E t \in Threads : LoopSleep(t)

\* one consumer that the application starts once and may stop; a started
\* worker thread keeps running and the waits of the caller (waitForWarmup,
\* join) return
FairStartStopSpec ==
    /\ Init /\ [][StartStopNext]_vars
    /\ \A t \in Threads : WF_vars(Worker(t) \/ LoopSleep(t))
    /\ WF_vars(waitForWarmup)
    /\ WF_vars(StopJoin)

\* ---------------------------------------------------------------------
\* EventConsumer.__init__: _setupInotify
\* ---------------------------------------------------------------------
\* for _ in range(50)
POLLS == 50

\* a wait for the doorbell file that never gives up
PollAgain_forever(n) == TRUE

\* the for loop of _setupInotify has another iteration
PollAgain(n) == n < POLLS

\* the fields of a consumer whose __init__ is about to call _setupInotify;
\* the doorbell file is there or not
SetupInit ==
    /\ RpcInit
    /\ ring_files = [c \in RingChannels |-> {}]
    /\ state_files = [c \in StateChannels |-> NoFile]
    /\ doorbell = FALSE
    /\ writes = 0
    /\ raises = 0
    /\ warn_on_gaps = TRUE
    /\ last_seq = [c \in RingChannels |-> 0]
    /\ last_state_mtime = [c \in StateChannels |-> 0]
    /\ running = FALSE
    /\ thread = 0
    /\ _warmup_complete = FALSE
    /\ _warmup_event_count = 0
    /\ event_cache = <<>>
    /\ warnings = <<>>
    /\ wk = [t \in Threads |-> NoThread]
    /\ st_pc = "idle"
    /\ st_ret = NoReturn
    /\ inotify_open = FALSE
    /\ doorbell_exists \in BOOLEAN
    /\ su_pc = "start"
    /\ su_polls = 0

\* _setupInotify: INotify(), "Check if doorbell exists"
SetupBegin ==
    /\ su_pc = "start"
    /\ su_pc' = IF doorbell_exists THEN "check" ELSE "poll"
    /\ UNCHANGED <<doorbell_exists, su_polls>>
    /\ UNCHANGED <<rpcVars, diskVars, consumerVars>>

\* _setupInotify: one iteration of "Wait up to 5 seconds for doorbell to
\* appear": break when the file is there, sleep 0.1 s otherwise (range(50)
\* yields no more than POLLS values)
SetupPoll ==
    /\ su_pc = "poll"
    /\ IF PollAgain(su_polls) /\ ~doorbell_exists
       THEN /\ su_polls' = Min(su_polls + 1, POLLS)
            /\ UNCHANGED su_pc
       ELSE /\ su_pc' = "check"
            /\ UNCHANGED su_polls
    /\ UNCHANGED doorbell_exists
    /\ UNCHANGED <<rpcVars, diskVars, consumerVars>>

\* _setupInotify: the second test of the file, raise FileNotFoundError
SetupCheck ==
    /\ su_pc = "check"
    /\ su_pc' = IF doorbell_exists THEN "watch" ELSE "raised"
    /\ UNCHANGED <<doorbell_exists, su_polls>>
    /\ UNCHANGED <<rpcVars, diskVars, consumerVars>>

\* _setupInotify: inotify.add_watch(DOORBELL_PATH, ...), which raises
\* FileNotFoundError when the path is not there
SetupWatch ==
    /\ su_pc = "watch"
    /\ su_pc' = IF doorbell_exists THEN "done" ELSE "raised"
    /\ inotify_open' = doorbell_exists
    /\ UNCHANGED <<doorbell_exists, su_polls>>
    /\ UNCHANGED <<rpcVars, diskVars, warn_on_gaps, last_seq,
                   last_state_mtime, running, thread, _warmup_complete,
                   _warmup_event_count, event_cache, warnings, wk, st_pc,
                   st_ret>>

\* the plugin creates the doorbell file
DoorbellAppears ==
    /\ ~doorbell_exists
    /\ doorbell_exists' = TRUE
    /\ UNCHANGED <<su_pc, su_polls>>
    /\ UNCHANGED <<rpcVars, diskVars, consumerVars>>

\* the doorbell file is removed
DoorbellRemoved ==
    /\ doorbell_exists
    /\ doorbell_exists' = FALSE
    /\ UNCHANGED <<su_pc, su_polls>>
    /\ UNCHANGED <<rpcVars, diskVars, consumerVars>>

SetupStep == SetupBegin \/ SetupPoll \/ SetupCheck \/ SetupWatch

SetupNext ==
    \/ SetupStep
    \/ DoorbellAppears
    \/ DoorbellRemoved

\* the constructor of EventConsumer next to a doorbell file that may appear
\* and disappear at any moment; the constructing thread keeps running and
\* its sleeps return
SetupSpec == SetupInit /\ [][SetupNext]_vars /\ WF_vars(SetupStep)

\* one consumer that the application starts, stops and starts again; every
\* started worker thread keeps running and the waits of the caller return
FairLifecycleSpec ==
    /\ LifecycleSpec
    /\ \A t \in Threads : WF_vars(Worker(t) \/ LoopSleep(t))
    /\ WF_vars(waitForWarmup)
    /\ WF_vars(StopJoin)

\* ---------------------------------------------------------------------
\* Properties
\* ---------------------------------------------------------------------
Log == hist.log
LastCall == Log[Len(Log)]
Pending == HasFlag(req.flags, FLAG_REQUEST_PENDING)

\* the caller executes the sequence check of _waitForResponse in this step
ChecksSequence == pc = "wait_seq" /\ pc' # "wait_seq"

\* C1: when _waitForResponse, having seen the ready flag and a valid magic,
\* reads a sequence field different from expected_seq, the call ends with the
\* RuntimeError (no timeout result, no success=false result, no cached
\* object), and no call that returned a payload had read another sequence
\* number than its own.
C1_DesyncRaises ==
    /\ [][(ChecksSequence /\ rsp.sequence # seq) =>
            /\ pc' = "idle"
            /\ ret' = Raised("desync")
            /\ hist'.log = Append(hist.log, LastCall')
            /\ LastCall'.out = "raise"
            /\ cached_objects' = cached_objects]_vars
    /\ [](\A i \in 1..Len(Log) : Log[i].out = "payload" => Log[i].rseq = Log[i].seq)

\* C1 witness: a call that saw a ready reply with another sequence number
\* has raised
C1_Witness ==
    /\ pc = "idle"
    /\ ret = Raised("desync")
    /\ Log # <<>>
    /\ LastCall.saw_ready
    /\ LastCall.rseq # LastCall.seq

\* C2: as long as the bridge echoes the sequence number it read, the i-th
\* call that returns a payload returns one that the bridge wrote for the
\* sequence number of the i-th request, and the payloads are returned in the
\* order of the requests.
C2_RepliesMatchRequests ==
    hist.faithful =>
        /\ \A i \in 1..Len(Log) :
              /\ Log[i].seq = hist.issued[i]
              /\ Log[i].out = "payload" =>
                    Log[i].rseq = hist.issued[i] /\ Log[i].tag = hist.issued[i]
        /\ \A i, j \in 1..Len(Log) :
              (i < j /\ Log[i].out = "payload" /\ Log[j].out = "payload") =>
                  Log[i].tag < Log[j].tag

\* C2 witness: every call of the run returned the payload of its own request
C2_Witness ==
    /\ hist.faithful
    /\ Len(Log) = MaxCalls
    /\ \A i \in 1..Len(Log) : Log[i].out = "payload" /\ Log[i].tag = i

\* C3: the sequence numbers handed out are strictly increasing, whatever the
\* outcome of the calls and however often RuneLiteAPI() is constructed again.
C3_SequenceStrictlyIncreasing ==
    /\ \A i, j \in 1..Len(hist.issued) : i < j => hist.issued[i] < hist.issued[j]
    /\ hist.issued # <<>> => _sequence = hist.issued[Len(hist.issued)]

\* C3 witness: sequence numbers were handed out after a call had failed, and
\* RuneLiteAPI() was then constructed again
C3_Witness ==
    /\ Len(hist.issued) = MaxCalls
    /\ Log # <<>>
    /\ Log[1].out # "payload"
    /\ ret.kind = "instance"
    /\ _sequence = MaxCalls

\* C4 as stated: _sendRequest writes the first field of a request only when
\* the pending flag of the previous request is clear.
C4_NoOverwriteWhilePending ==
    [][(pc = "send_magic" /\ pc' = "send_version") => ~Pending]_vars

\* C5: every finished call has set the pending flag exactly once and has
\* advanced the counter by exactly 1, and a running call never more.
C5_OneRoundTrip ==
    /\ \A i \in 1..Len(Log) : Log[i].sends = 1 /\ Log[i].adv = 1
    /\ pc # "idle" => hist.sends <= 1 /\ _sequence - hist.seq0 = 1
    /\ pc \in {"wait_poll", "wait_magic", "wait_seq", "wait_length",
               "wait_payload", "wait_clear"} => hist.sends = 1

\* C5 witness: calls that ended in a timeout and in an error reply, each
\* after one request
C5_Witness ==
    /\ Len(Log) = 2
    /\ Log[1].out = "nodata" /\ ~Log[1].saw_ready /\ Log[1].sends = 1
    /\ Log[2].ret = ErrorResult(GetKey(BridgeError, STR_error))
    /\ Log[2].sends = 1

\* C6: a call polling for a response whose ready flag it has not seen so far
\* either sees the ready flag or stops polling: _waitForResponse returns None
\* and executeBatchQuery returns the success=false timeout result (it neither
\* blocks forever nor raises).
C6_TimeoutTerminates ==
    (pc = "wait_poll" /\ ~hist.saw_ready) ~>
        \/ hist.saw_ready
        \/ /\ pc = "idle"
           /\ ret = TimeoutResult
           /\ ret.success = FALSE
           /\ LastCall.out = "nodata"

\* C6 witness: a call has timed out without ever seeing the ready flag
C6_Witness ==
    /\ pc = "idle"
    /\ Log # <<>>
    /\ ~LastCall.saw_ready
    /\ ret = TimeoutResult
    /\ ret.success = FALSE

\* the caller returns from _waitForResponse with data in this step
ReturnsData == pc = "wait_clear" /\ pc' = "idle"

\* C7: a call that received data with the expected sequence returns a
\* dictionary; it has success=false and an error when the data does not
\* decode or decodes to an error object.
C7_ContentNeverRaises ==
    [][ReturnsData =>
          /\ ret'.kind = "dict"
          /\ LET dec == _decodeMsgpackResponse(data)
             IN (~dec.ok \/ (IsDict(dec.v) /\ HasKey(dec.v, STR_error))) =>
                    ret'.success = FALSE /\ ret'.error # Absent]_vars

\* C7 witness: an error object and an undecodable payload were both returned
\* as structured failures
C7_Witness ==
    /\ Len(Log) = 2
    /\ Log[1].out = "payload"
    /\ Log[1].ret = ErrorResult(GetKey(BridgeError, STR_error))
    /\ Log[2].out = "payload"
    /\ Log[2].ret = DecodeFailure

\* C8: while a region is not mapped no sequence number has been handed out
\* and both regions are untouched, and a call made then raises RuntimeError.
C8_NotConnectedRaises ==
    /\ [](~(api_channel /\ result_buffer) =>
            /\ _sequence = 0
            /\ hist.issued = <<>>
            /\ req = ZeroHeader(<<>>)
            /\ rsp = ZeroHeader(<<>>)
            /\ pc = "idle")
    /\ [][(~(api_channel /\ result_buffer) /\ ret' # ret
             /\ ret'.kind \notin {"instance", "bool"}) =>
            /\ ret' = Raised("not_connected")
            /\ UNCHANGED <<_sequence, req, rsp>>]_vars

\* C8 witness: a call raised after connect() had mapped the request region only
C8_Witness ==
    /\ ret = Raised("not_connected")
    /\ api_channel
    /\ ~result_buffer
    /\ _sequence = 0

\* C9 as stated: a connect() that could not open or map a region does not
\* return normally (it raises).
C9_ConnectFailureRaised == ret.kind = "bool" => ret.fail = "none"

\* C9 amended: connect() never raises; it returns False exactly when a region
\* could not be opened or mapped and True otherwise.
C9_ConnectFailureReturnsFalse ==
    /\ ret # Raised("connect")
    /\ ret.kind = "bool" => ret.value = (ret.fail = "none")

\* C9 witness: connect() has failed and returned False
C9_Witness == ret.kind = "bool" /\ ret.fail # "none" /\ ret.value = FALSE

\* the replies that list the results of the operations in their order
MatchingReplies(ops) ==
    LET p == Pack(ResultsOf(ops))
    IN {p, INTEGRITY_MAGIC \o LE32(Len(p)) \o p}

\* C10: when the data received is the list of the results of the submitted
\* operations, in their order, the call returns success=true with a results
\* list of the same length whose i-th element is the result of the i-th
\* operation.
C10_RoundTrip ==
    [][(ReturnsData /\ data \in MatchingReplies(operations)) =>
          /\ ret'.kind = "dict"
          /\ ret'.success = TRUE
          /\ IsList(ret'.results)
          /\ Len(ret'.results.l) = Len(operations)
          /\ \A i \in 1..Len(operations) :
                ret'.results.l[i] = Result(operations[i])]_vars

\* C10 witness: a batch of MaxBatch operations came back in order
C10_Witness ==
    /\ pc = "idle"
    /\ Len(operations) = MaxBatch
    /\ Log # <<>>
    /\ LastCall.out = "payload"
    /\ LastCall.ret = ret
    /\ ret.kind = "dict"
    /\ ret.success
    /\ ret.results = ResultsOf(operations)


\* C11 as stated: a call that returns success=true returns a results list
\* with one entry per submitted operation, the i-th entry being the result
\* of the i-th operation.
C11_ResultsAligned ==
    [][(ReturnsData /\ ret'.kind = "dict" /\ ret'.success) =>
          /\ IsList(ret'.results)
          /\ Len(ret'.results.l) = Len(operations)
          /\ \A i \in 1..Len(operations) :
                ret'.results.l[i] = Result(operations[i])]_vars


\* the replies that answer the operations one result each: the list of the
\* results and, for a single operation, its bare result
AlignedReplies(ops) ==
    MatchingReplies(ops) \cup
        (IF Len(ops) = 1 THEN {Pack(Result(ops[1]))} ELSE {})

\* C11 amended: a call that returns success=true returns a list: the decoded
\* reply itself when that is a list, a one-element list holding it otherwise;
\* the list has one entry per operation, in order, when the reply answers
\* the submitted operations one result each (the length is not checked
\* against the operations).
C11_ResultsNormalized ==
    [][(ReturnsData /\ ret'.kind = "dict" /\ ret'.success) =>
          LET dec == _decodeMsgpackResponse(data)
          IN /\ dec.ok
             /\ IsList(ret'.results)
             /\ IsList(dec.v) => ret'.results = dec.v
             /\ ~IsList(dec.v) => ret'.results.l = <<dec.v>>
             /\ data \in AlignedReplies(operations) =>
                   /\ Len(ret'.results.l) = Len(operations)
                   /\ \A i \in 1..Len(operations) :
                         ret'.results.l[i] = Result(operations[i])]_vars

\* C11 witness: the bare result of a single operation came back as a
\* one-element list
C11_Witness ==
    /\ pc = "idle"
    /\ Log # <<>>
    /\ LastCall.out = "payload"
    /\ LastCall.ret = ret
    /\ Len(operations) = 1
    /\ rsp.sequence = seq
    /\ ReadBytes(rsp.payload, rsp.length) = Pack(Result(operations[1]))
    /\ ret.kind = "dict"
    /\ ret.success
    /\ ret.results = ListV(<<Result(operations[1])>>)


\* ---------------------------------------------------------------------
\* Properties of the event consumer
\* ---------------------------------------------------------------------
\* the entries added to the cache since thread t listed the files of the
\* channel it is draining
DrainDelivered(t) == SubSeq(event_cache, wk[t].c0 + 1, Len(event_cache))

\* the cache entry of the event of sequence number n of ring channel c
Entry(c, n) == [channel |-> c, event |-> IntV(n), seq |-> n]

\* the decodable files <c>.1 .. <c>.K
FirstFiles(K) == {[name |-> str(n), bytes |-> EventBytes(n)] : n \in 1..K}

\* C12: when the files <c>.1 .. <c>.K, all decodable, are what the first
\* drain of channel c finds, and the drain is left alone (no file of the
\* channel written meanwhile, Cache.addEvent returns), it delivers the K
\* events in ascending order, returns K, leaves last_seq[c] = K and no file
\* of the channel.
C12_FirstDrain ==
    [][\A t \in Threads : \A K \in 0..MaxWrites :
          (/\ RingReturn(t)
           /\ wk[t].phase = "warmup"
           /\ wk[t].l0 = 0
           /\ wk[t].clean
           /\ wk[t].snap = FirstFiles(K))
          => /\ DrainDelivered(t) = [n \in 1..K |-> Entry(RingChannel(t), n)]
             /\ wk[t].events_processed = K
             /\ last_seq[RingChannel(t)] = K
             /\ ring_files[RingChannel(t)] = {}]_vars

\* C12 witness: a first drain that found files 1..3 is about to return 3
C12_Witness ==
    \E t \in Threads :
        /\ wk[t].pc = "ring_file"
        /\ wk[t].files = <<>>
        /\ wk[t].phase = "warmup"
        /\ wk[t].clean
        /\ wk[t].snap = FirstFiles(3)
        /\ wk[t].events_processed = 3
        /\ ring_files[RingChannel(t)] = {}

\* C13: for every ring channel the sequence numbers of the events in the
\* cache, in the order of their delivery, are strictly increasing as numbers.
C13_StrictlyIncreasing ==
    \A i, j \in 1..Len(event_cache) :
        (/\ i < j
         /\ event_cache[i].channel \in RingChannels
         /\ event_cache[i].channel = event_cache[j].channel)
        => event_cache[i].seq < event_cache[j].seq

\* C13 witness: event 10 was delivered right after event 3 of the channel
C13_Witness ==
    \E i \in 1..Len(event_cache) :
        /\ i < Len(event_cache)
        /\ event_cache[i] = Entry(RING_BUFFER_CHANNELS[1], 3)
        /\ event_cache[i + 1] = Entry(RING_BUFFER_CHANNELS[1], 10)

\* thread t takes the step that visits a file whose number is not above the
\* cursor
VisitsStale(t) ==
    /\ RingFile(t)
    /\ isdigit(Head(wk[t].files))
    /\ int(Head(wk[t].files)) <= last_seq[RingChannel(t)]

\* no sequence number of a ring channel is in the cache twice
NoRedelivery ==
    \A i, j \in 1..Len(event_cache) :
        (/\ i # j
         /\ event_cache[i].channel \in RingChannels
         /\ event_cache[i].channel = event_cache[j].channel)
        => event_cache[i].seq # event_cache[j].seq

\* C14: a file whose number is not above the cursor when the drain reaches
\* it is deleted, not deserialized and not delivered, and the cursor stays;
\* no sequence number of a channel is delivered twice.
C14_StaleDiscarded ==
    [][/\ \A t \in Threads :
             VisitsStale(t)
             => /\ Head(wk[t].files) \notin Names(ring_files'[RingChannel(t)])
                /\ wk'[t].pc = "ring_file"
                /\ wk'[t].event = NilV
                /\ event_cache' = event_cache
                /\ last_seq' = last_seq
       /\ NoRedelivery']_vars

\* C14 witness: a drain that found a file with an already processed number
\* is about to return: the file is gone and nothing was delivered
C14_Witness ==
    \E t \in Threads :
        /\ wk[t].pc = "ring_file"
        /\ wk[t].files = <<>>
        /\ wk[t].clean
        /\ wk[t].l0 > 0
        /\ \E f \in wk[t].snap :
              /\ f.name = str(wk[t].l0)
              /\ unpackb(f.bytes).ok
        /\ ring_files[RingChannel(t)] = {}
        /\ Len(event_cache) = wk[t].c0
        /\ \E i \in 1..Len(event_cache) :
              event_cache[i] = Entry(RingChannel(t), wk[t].l0)

\* C15 as stated: no event file that a drain attempted to process still
\* exists when the drain returns (checked for drains during which no file
\* of the channel was written).
C15_DeletedAfterProcessing ==
    [][\A t \in Threads :
          (RingReturn(t) /\ wk[t].clean)
          => \A f \in wk[t].snap :
                isdigit(f.name) => f.name \notin Names(ring_files[RingChannel(t)])]_vars

\* the numbers of the decodable event files of a listing that are above the
\* cursor l0
Deliverable(snap, l0) ==
    {int(f.name) : f \in {g \in snap : /\ isdigit(g.name)
                                       /\ unpackb(g.bytes).ok
                                       /\ int(g.name) > l0}}

\* the numbers of a set in ascending order
Ascending(S) ==
    CHOOSE q \in [1..Cardinality(S) -> S] :
        \A i, j \in 1..Cardinality(S) : i < j => q[i] < q[j]

\* C16: a drain that is left alone (no file of the channel written
\* meanwhile, Cache.addEvent returns) delivers every decodable file above
\* the cursor, in ascending order, whatever files fail to deserialize,
\* returns the number of deliveries, and the worker goes on.
C16_FailureIsolated ==
    [][\A t \in Threads :
          (RingReturn(t) /\ wk[t].clean)
          => LET D == Deliverable(wk[t].snap, wk[t].l0)
             IN /\ DrainDelivered(t) =
                      [i \in 1..Cardinality(D) |->
                          Entry(RingChannel(t), Ascending(D)[i])]
                /\ wk[t].events_processed = Cardinality(D)
                /\ wk'[t].pc \in {"ring_glob", "state_stat", "warmup_done",
                                  "loop"}]_vars

\* C16 witness: a drain that found a corrupt file 2 next to files 1 and 3 is
\* about to return 2
C16_Witness ==
    \E t \in Threads :
        /\ wk[t].pc = "ring_file"
        /\ wk[t].files = <<>>
        /\ wk[t].clean
        /\ wk[t].snap = {[name |-> str(1), bytes |-> EventBytes(1)],
                         [name |-> str(2), bytes |-> CORRUPT],
                         [name |-> str(3), bytes |-> EventBytes(3)]}
        /\ wk[t].events_processed = 2
        /\ DrainDelivered(t) = <<Entry(RingChannel(t), 1), Entry(RingChannel(t), 3)>>

\* thread t takes the step from the deserialized event to the next file
DeliverStep(t) == wk[t].pc = "ring_deliver" /\ wk'[t].pc = "ring_file"

\* C17: with gap warnings enabled, a warning is logged exactly in the step
\* that handles a deserialized event of number N with N # last_seq + 1 and
\* last_seq > 0; when Cache.addEvent returns the event is in the cache and
\* the cursor is N.
C17_GapWarning ==
    [][/\ \A t \in Threads :
             DeliverStep(t)
             => LET c == RingChannel(t)
                    N == wk[t].seq
                    last == last_seq[c]
                IN /\ warn_on_gaps
                   /\ warnings' =
                         IF N # last + 1 /\ last > 0
                         THEN Append(warnings, [channel |-> c,
                                                expected |-> last + 1,
                                                got |-> N])
                         ELSE warnings
                   /\ raises' = raises
                      => /\ event_cache' =
                               Append(event_cache,
                                      [channel |-> c, event |-> wk[t].event,
                                       seq |-> N])
                         /\ last_seq'[c] = N
       /\ (\A t \in Threads : ~DeliverStep(t)) => warnings' = warnings]_vars

\* C17 witness: files 1, 2 and 10 were delivered, with one warning for the
\* missing 3
C17_Witness ==
    /\ event_cache = <<Entry(RING_BUFFER_CHANNELS[1], 1),
                       Entry(RING_BUFFER_CHANNELS[1], 2),
                       Entry(RING_BUFFER_CHANNELS[1], 10)>>
    /\ warnings = <<[channel |-> RING_BUFFER_CHANNELS[1], expected |-> 3,
                     got |-> 10]>>
    /\ last_seq[RING_BUFFER_CHANNELS[1]] = 10

\* C18 as stated: once a pass has started after which the producer wrote
\* nothing, a further pass delivers no event and moves no cursor.
C18_RedrainIdempotent ==
    [][\A t \in Threads :
          wk[t].passes = 2
          => /\ event_cache' = event_cache
             /\ last_seq' = last_seq
             /\ last_state_mtime' = last_state_mtime]_vars

\* C19 as stated: when the latest-state file does not deserialize, the cursor
\* of the channel after _processLatestState is what it was before the call.
C19_FailureKeepsCursor ==
    [][\A t \in Threads :
          (/\ wk[t].pc = "state_read"
           /\ wk'[t].pc # "state_read"
           /\ ~unpackb(state_files[StateChannel(t)].bytes).ok)
          => last_state_mtime'[StateChannel(t)] = wk[t].l0]_vars

\* C20: the warmup-complete condition is set by a worker that has drained
\* every ring channel and every latest-state channel once; a worker that is
\* in its loop (doorbell wait, notification-triggered pass) has set it.
C20_WarmupOrder ==
    [][/\ (~_warmup_complete /\ _warmup_complete')
          => \E t \in Threads :
                /\ wk[t].phase = "warmup"
                /\ wk[t].done = RING_BUFFER_CHANNELS \o LATEST_STATE_CHANNELS
       /\ \A t \in Threads : wk'[t].phase = "loop" => _warmup_complete']_vars

\* C20 witness: the warmup delivered two ring events and a state, the
\* condition is set and the worker is about to wait on the doorbell
C20_Witness ==
    \E t \in Threads :
        /\ _warmup_complete
        /\ wk[t].pc = "loop"
        /\ _warmup_event_count = 2
        /\ Len(event_cache) = 3
        /\ event_cache[3].channel \in StateChannels
        /\ doorbell

ConsumerState ==
    <<diskVars, warn_on_gaps, last_seq, last_state_mtime, running, thread,
      _warmup_complete, _warmup_event_count, event_cache, warnings, wk,
      inotify_open>>

\* C22: a waitForWarmup that times out returns False and changes nothing
\* else: the running flag stays set and the worker keeps its position.
C22_TimeoutOnlyReports ==
    [][(st_pc = "wait_warmup" /\ st_pc' # "wait_warmup" /\ ~_warmup_complete)
       => /\ st_ret' = Returned("waitForWarmup", "False")
          /\ st_pc' = "idle"
          /\ running /\ running'
          /\ wk[thread].pc \notin {"none", "dead"}
          /\ ConsumerState' = ConsumerState]_vars

\* C22 witness: start(wait_for_warmup=True) has returned False, the worker is
\* still in its warmup and the running flag is set
C22_Witness ==
    /\ st_pc = "idle"
    /\ st_ret = Returned("waitForWarmup", "False")
    /\ running
    /\ ~_warmup_complete
    /\ wk[thread].phase = "warmup"

\* the worker threads that have started and not ended
Alive == {t \in Threads : wk[t].pc \notin {"none", "dead"}}

\* C23 as stated: at most one worker thread is alive at any time.
C23_SingleWorker == Cardinality(Alive) <= 1

\* C24: once the running flag is cleared, a live worker eventually ends.
C24_StopTerminates ==
    \A t \in Threads : (~running /\ t \in Alive) ~> (wk[t].pc = "dead")

\* C24 witness: stop() has returned and the worker, which had delivered an
\* event, has ended
C24_Witness ==
    /\ st_ret = Returned("stop", "None")
    /\ ~running
    /\ thread # 0
    /\ wk[thread].pc = "dead"
    /\ event_cache # <<>>

\* C25: stop() on a consumer that is not running changes nothing: no join,
\* the watch is not closed (again).
C25_StopIdempotent ==
    [][(stop /\ ~running)
       => /\ ConsumerState' = ConsumerState
          /\ st_pc' = "idle"
          /\ st_ret' = Returned("stop", "None")]_vars

\* C25 witness: stop() has returned on a consumer that was never started;
\* its watch is still open
C25_Witness ==
    /\ st_ret = Returned("stop", "None")
    /\ thread = 0
    /\ ~running
    /\ inotify_open

\* C26: an exception in an iteration of the loop takes the worker to its
\* sleep and from there back to the loop condition; a worker ends only at
\* the loop condition, with the running flag cleared.
C26_LoopSurvivesErrors ==
    [][\A t \in Threads :
          /\ (wk[t].pc = "read" /\ wk'[t].pc # "read" /\ ~inotify_open)
             => wk'[t].pc = "sleep"
          /\ (wk[t].pc = "sleep" /\ wk'[t].pc # "sleep") => wk'[t].pc = "loop"
          /\ (wk[t].pc # "dead" /\ wk'[t].pc = "dead")
             => wk[t].pc = "loop" /\ ~running]_vars

\* C26 witness: the watch is closed, the running flag is set, and a worker
\* whose wait on the doorbell raised is sleeping
C26_Witness ==
    \E t \in Threads :
        /\ wk[t].pc = "sleep"
        /\ running
        /\ ~inotify_open

\* ---------------------------------------------------------------------
\* Properties of the order of the writes of _sendRequest
\* ---------------------------------------------------------------------
\* the caller is in _waitForResponse, past the poll that saw the ready flag
ReadingReply ==
    pc \in {"wait_magic", "wait_seq", "wait_length", "wait_payload",
            "wait_clear"}

\* C28 as stated: what the bridge reads after it observed the pending flag
\* is the sequence number and the complete payload of one single request.
C28_BridgeReadsOneRequest ==
    [][(bpc = "read" /\ bpc' = "reply")
       => /\ req.magic = REQUEST_MAGIC
          /\ req.version = PROTOCOL_VERSION
          /\ \E j \in 1..Len(hist.issued) :
                /\ b_req'.sequence = hist.issued[j]
                /\ req.length = Len(Pack(OpsValue(hist.sent[j])))
                /\ b_req'.payload = Pack(OpsValue(hist.sent[j]))]_vars

\* C29: a reply whose ready flag was set before the send cleared the
\* response header is never read by the _waitForResponse that follows: when
\* the caller reads a reply, its ready flag was set after the clear.
C29_StaleReplyNeverRead == ReadingReply => hist.fresh

\* C29 witness: the send of the current call found a ready reply in the
\* response region, and the caller is now reading a reply
C29_Witness == hist.stale /\ pc = "wait_seq"

\* C30: when the magic number of a ready reply is not RESPONSE_MAGIC,
\* _waitForResponse clears the response flags and returns None: the call
\* ends with the no-response result, and the payload bytes are neither read
\* nor decoded (the cache of references is untouched).
C30_BadMagicNoPayload ==
    [][(pc = "wait_magic" /\ pc' # "wait_magic" /\ rsp.magic # RESPONSE_MAGIC)
       => /\ pc' = "idle"
          /\ rsp'.flags = 0
          /\ ret' = TimeoutResult
          /\ data = <<>> /\ data' = <<>>
          /\ cached_objects' = cached_objects
          /\ hist'.log[Len(hist'.log)].out = "nodata"]_vars

\* C30 witness: a call that saw the ready flag has returned without a
\* payload; the reply in the response region has a wrong magic number, a
\* payload and flags 0
C30_Witness ==
    /\ pc = "idle"
    /\ hist.log # <<>>
    /\ hist.log[Len(hist.log)].out = "nodata"
    /\ hist.log[Len(hist.log)].saw_ready
    /\ rsp.magic # RESPONSE_MAGIC
    /\ rsp.length > 0
    /\ rsp.flags = 0

\* ---------------------------------------------------------------------
\* Properties of malformed, framed, late and empty replies
\* ---------------------------------------------------------------------
\* C31 as stated: a ready reply with a wrong magic number is treated as
\* "not ready yet": _waitForResponse goes back to polling and the call does
\* not return in that step.
C31_BadMagicRetried ==
    [][(pc = "wait_magic" /\ pc' # "wait_magic" /\ rsp.magic # RESPONSE_MAGIC)
       => /\ pc' = "wait_poll"
          /\ ret' = ret
          /\ hist'.log = hist.log]_vars

\* a message behind the 8-byte prefix (integrity magic, declared size),
\* followed by the bytes of rest
Framed(p, rest) == INTEGRITY_MAGIC \o LE32(Len(p)) \o p \o rest

\* C32: when the data starts with the integrity magic and the declared size,
\* the declared number of bytes behind the prefix is deserialized and what
\* follows is ignored: a framed list of results followed by leftover bytes
\* comes back as those results. Without the prefix the whole buffer is
\* deserialized: the same list followed by the same leftover bytes does not
\* decode.
C32_DeclaredSizeDecoded ==
    [][ReturnsData =>
          LET p == Pack(ResultsOf(operations))
          IN /\ data \in {Framed(p, <<>>), Framed(p, LEFTOVER)} =>
                   /\ ret'.kind = "dict"
                   /\ ret'.success = TRUE
                   /\ ret'.results = ResultsOf(operations)
             /\ data = p \o LEFTOVER => ret' = DecodeFailure
             /\ data = p => ret'.success = TRUE]_vars

\* C32 witness: a framed reply with leftover bytes behind the declared size
\* has been returned as the list of results
C32_Witness ==
    /\ pc = "idle"
    /\ Log # <<>>
    /\ LastCall.out = "payload"
    /\ rsp.length = Len(Framed(Pack(ResultsOf(operations)), LEFTOVER))
    /\ ReadBytes(rsp.payload, rsp.length)
          = Framed(Pack(ResultsOf(operations)), LEFTOVER)
    /\ ret.kind = "dict"
    /\ ret.success
    /\ ret.results = ResultsOf(operations)

\* C37: when the reply that the caller checks was written by the bridge for
\* an earlier request than the caller's, the call ends with the RuntimeError
\* at the sequence check: the reply is not discarded (the response region
\* is left as it is), the caller does not poll again, and no payload is
\* read.
C37_LateReplyRaises ==
    [][(ChecksSequence /\ hist.faithful /\ hist.rsp_tag < seq)
       => /\ pc' = "idle"
          /\ ret' = Raised("desync")
          /\ rsp' = rsp
          /\ data' = <<>>
          /\ cached_objects' = cached_objects
          /\ LastCall'.out = "raise"
          /\ LastCall'.rseq = hist.rsp_tag]_vars

\* C37 witness: the call before the last timed out without seeing a reply;
\* the last call's send found no ready reply, the bridge then published its
\* reply to the earlier request, and the last call raised on it
C37_Witness ==
    /\ pc = "idle"
    /\ Len(Log) >= 2
    /\ Log[Len(Log) - 1].out = "nodata"
    /\ ~Log[Len(Log) - 1].saw_ready
    /\ hist.faithful
    /\ ~hist.stale
    /\ hist.fresh
    /\ LastCall.out = "raise"
    /\ LastCall.rseq = Log[Len(Log) - 1].seq
    /\ ret = Raised("desync")

\* C40: a ready reply with valid magic, the expected sequence and length 0
\* makes _waitForResponse clear the flags and return None in that step, and
\* the call returns the result of a call that got no reply.
C40_EmptyReplyIsTimeout ==
    [][(/\ pc = "wait_length" /\ pc' # "wait_length"
        /\ rsp.magic = RESPONSE_MAGIC
        /\ rsp.sequence = seq
        /\ rsp.length = 0)
       => /\ pc' = "idle"
          /\ rsp'.flags = 0
          /\ ret' = TimeoutResult
          /\ ret'.success = FALSE
          /\ cached_objects' = cached_objects
          /\ LastCall'.out = "nodata"]_vars

\* C40 witness: the first call timed out without a reply, the second saw a
\* ready reply of length 0; both returned the same result
C40_Witness ==
    /\ pc = "idle"
    /\ Len(Log) = 2
    /\ ~Log[1].saw_ready /\ Log[1].out = "nodata"
    /\ Log[2].saw_ready /\ Log[2].out = "nodata"
    /\ Log[2].rseq = Log[2].seq
    /\ Log[1].ret = Log[2].ret
    /\ rsp.length = 0
    /\ rsp.flags = 0

\* ---------------------------------------------------------------------
\* Properties of the running loop, of restart and of stop
\* ---------------------------------------------------------------------
\* the files of all channels, the cache and the cursors
Delivery ==
    <<ring_files, state_files, event_cache, last_seq, last_state_mtime>>

\* C34: a wait on the doorbell that returns without a notification starts
\* no drain: the worker goes back to the loop condition, no file is removed,
\* no event is delivered and no cursor moves; files written without a ring
\* of the doorbell stay where they are.
C34_TimeoutDrainsNothing ==
    [][\A t \in Threads :
          (wk[t].pc = "read" /\ wk'[t].pc # "read" /\ inotify_open /\ ~doorbell)
          => /\ wk'[t].pc = "loop"
             /\ Delivery' = Delivery
             /\ warnings' = warnings]_vars

\* C34 witness: the producer has written an event file above the cursor
\* without ringing the doorbell since the last pass started; the worker is
\* in the doorbell wait of its loop and no notification is there
C34_Witness ==
    \E t \in Threads :
        /\ wk[t].pc = "read"
        /\ wk[t].phase = "loop"
        /\ wk[t].passes = 0
        /\ ~doorbell
        /\ inotify_open
        /\ \E f \in ring_files[RING_BUFFER_CHANNELS[1]] :
              /\ isdigit(f.name)
              /\ int(f.name) > last_seq[RING_BUFFER_CHANNELS[1]]
              /\ unpackb(f.bytes).ok

\* C36 as stated: start(wait_for_warmup=True) returns True only when the
\* worker it started has completed its warmup (no worker of an earlier run
\* being alive).
C36_RestartWaitsForWarmup ==
    [][(st_pc = "wait_warmup" /\ st_pc' = "idle" /\ Alive = {thread}
            /\ st_ret' = Returned("waitForWarmup", "True"))
       => wk[thread].phase = "loop"]_vars

\* C38 as stated: once stop() has returned (and start() was not called
\* again), no event is delivered to the cache and no cursor changes.
C38_QuietAfterStop ==
    [][(st_pc = "idle" /\ st_ret = Returned("stop", "None") /\ ~running)
       => /\ event_cache' = event_cache
          /\ last_seq' = last_seq
          /\ last_state_mtime' = last_state_mtime]_vars

\* C39 as stated: each version of a latest-state file (every write of the
\* producer has its own content) is delivered to the cache at most once.
C39_StateVersionOnce ==
    \A i, j \in 1..Len(event_cache) :
        (i < j /\ event_cache[i].channel \in StateChannels)
        => event_cache[i] # event_cache[j]

\* the channels in the order of a pass
PassOrder == RING_BUFFER_CHANNELS \o LATEST_STATE_CHANNELS

\* thread t is inside a pass started by a notification
InPass(t) ==
    /\ wk[t].phase = "loop"
    /\ wk[t].pc \in {"ring_glob", "ring_file", "ring_deliver", "state_stat",
                     "state_read"}

\* C33 as stated: while the consumer is running a notification on the
\* doorbell is eventually taken by a worker, which starts a pass; a pass
\* that has started ends; and the channels a pass (warmup included) has
\* drained so far are always the first ones of the configured order, ring
\* channels before latest-state channels, all of them when the pass ends.
C33_DoorbellDrained ==
    /\ (running /\ doorbell) ~> (~running \/ ~doorbell)
    /\ \A t \in Threads : InPass(t) ~> ~InPass(t)
    /\ [](\A t \in Threads :
             /\ Len(wk[t].done) <= Len(PassOrder)
             /\ wk[t].done = SubSeq(PassOrder, 1, Len(wk[t].done)))
    /\ [][\A t \in Threads :
             (InPass(t) /\ ~InPass(t)') => wk'[t].done = PassOrder]_vars

\* ---------------------------------------------------------------------
\* Properties of the constructor
\* ---------------------------------------------------------------------
\* C35: _setupInotify ends: it returns or raises FileNotFoundError; it has
\* waited POLLS times at most; when it returns the watch is registered (and
\* the file was found in fewer than POLLS + 1 looks), and when it raises no
\* watch is registered.
C35_SetupBounded ==
    /\ (su_pc = "start") ~> (su_pc \in {"done", "raised"})
    /\ [](su_pc = "done" => inotify_open)
    /\ [](su_pc = "raised" => ~inotify_open)
    /\ [][su_pc = "poll" /\ su_pc' = "check"
             => doorbell_exists \/ su_polls = POLLS]_vars
    /\ [][su_pc' = "raised" /\ su_pc # "raised" => ~doorbell_exists]_vars

\* C35 witness: the doorbell file was absent through all the polls and the
\* constructor has raised
C35_Witness ==
    /\ su_pc = "raised"
    /\ su_polls = POLLS
    /\ ~doorbell_exists
    /\ ~inotify_open

====
